---- MODULE Spec2Model ----
(***************************************************************************)
(* Model of the IR spectral analysis pipeline of FAIRChemistry/IRAnalysis  *)
(* (modules/analysis.py, modules/utils.py, modules/ir_file_handler.py and  *)
(* the datamodel classes they write to).                                   *)
(*                                                                         *)
(* Numbers are integers (spectra) or exact rationals (quantities), so the  *)
(* arithmetic of the model is exact where the program uses IEEE doubles.   *)
(* Optional Python arguments are sequences of length 0 (None) or 1.        *)
(* Python indices are 0-based; sequences here are 1-based.                 *)
(***************************************************************************)
EXTENDS Integers, Sequences, FiniteSets, TLC

VARIABLES detection,        \* IRDataFiles.detection
          measurements,     \* datamodel.experiment.measurements
          background_df,    \* IRDataFiles._background_df, its "intensity" column
          analysis,         \* datamodel.experiment.analysis = IRAnalysis._analysis_objects
          expected_peaks,   \* IRAnalysis.expected_peaks
          fit_models_attr,  \* IRAnalysis._fit_models, TRUE when a user list was stored
          last,             \* the public call made last, with its arguments
          err,              \* exception the last call ended with, "none" if it returned
          computed,         \* quantities computed by the last quantify call, in order
          y0,               \* per unit: the working y as construction left it
          note,             \* what the last call did beyond its arguments (history)
          calls,            \* number of public calls made so far
          pure              \* a helper function applied on its own: inputs and result

\* the state of an IRAnalysis object and of the calls made on it
session == <<detection, measurements, background_df, analysis, expected_peaks,
             fit_models_attr, last, err, computed, y0, note, calls>>

vars == <<session, pure>>

----------------------------------------------------------------------------
(* Bounds of the exploration *)

MaxCalls == 3

----------------------------------------------------------------------------
(* Generic helpers *)

None == <<>>

Some(v) == <<v>>

IsNone(o) == Len(o) = 0

Min2(a, b) == IF a <= b THEN a ELSE b

Max2(a, b) == IF a >= b THEN a ELSE b

SetMax(S) == CHOOSE m \in S : \A k \in S : k <= m

SetMin(S) == CHOOSE m \in S : \A k \in S : m <= k

SeqMax(s) == SetMax({s[i] : i \in 1..Len(s)})

SeqMin(s) == SetMin({s[i] : i \in 1..Len(s)})

Abs(a) == IF a < 0 THEN -a ELSE a

RECURSIVE Pow10(_)
Pow10(k) == IF k = 0 THEN 1 ELSE 10 * Pow10(k - 1)

RECURSIVE GCD(_, _)
GCD(a, b) == IF b = 0 THEN a ELSE GCD(b, a % b)

\* the subsequence of s at the positions of idx, in the order of idx
Pick(s, idx) == [k \in 1..Len(idx) |-> s[idx[k]]]

\* the increasing sequence of the members of a set of integers
RECURSIVE SortedSeq(_)
SortedSeq(S) == IF S = {} THEN <<>>
                ELSE LET m == SetMin(S) IN <<m>> \o SortedSeq(S \ {m})

----------------------------------------------------------------------------
(* Input data: the files loaded by IRDataFiles.  Every spectrum shares the *)
(* wavenumber grid; the grid reaches beyond the region of interest on both *)
(* sides so that truncation removes samples.                               *)

Wavenumbers == <<1390, 1420, 1450, 1480, 1510, 1540, 1570>>

BackgroundIntensity == <<1, 1, 0, 1, 0, 1, 1>>

\* the intensities of the two sample files, in file order
SampleIntensities == { << <<9, 2, 3, 2, 4, 2, 9>>, <<5, 3, 3, 6, 1, 2, 5>> >>,
                       << <<5, 3, 3, 6, 1, 2, 5>>, <<9, 2, 3, 2, 4, 2, 9>> >> }

----------------------------------------------------------------------------
(* modules/utils.py: _dataframe_truncate.  A dataframe is a record of two  *)
(* columns of equal length.                                                *)

\* the truncation that keeps the rows on the bounds as well
DataframeTruncateInclusive(dataframe, wavenumber_region) ==
    LET lo == Min2(wavenumber_region[1], wavenumber_region[2])
        hi == Max2(wavenumber_region[1], wavenumber_region[2])
        w  == dataframe.wavenumber
        keep == SortedSeq({i \in 1..Len(w) : w[i] <= hi /\ w[i] >= lo})
    IN  [wavenumber |-> Pick(w, keep),
         intensity  |-> Pick(dataframe.intensity, keep)]

\* the truncation with the bounds taken in the order given: first < x < second
DataframeTruncateAsGiven(dataframe, wavenumber_region) ==
    LET w  == dataframe.wavenumber
        keep == SortedSeq({i \in 1..Len(w) : w[i] < wavenumber_region[2]
                                             /\ w[i] > wavenumber_region[1]})
    IN  [wavenumber |-> Pick(w, keep),
         intensity  |-> Pick(dataframe.intensity, keep)]

DataframeTruncate(dataframe, wavenumber_region) ==
    LET lo == Min2(wavenumber_region[1], wavenumber_region[2])
        hi == Max2(wavenumber_region[1], wavenumber_region[2])
        w  == dataframe.wavenumber
        keep == SortedSeq({i \in 1..Len(w) : w[i] < hi /\ w[i] > lo})
    IN  [wavenumber |-> Pick(w, keep),
         intensity  |-> Pick(dataframe.intensity, keep)]

----------------------------------------------------------------------------
(* pybaselines.classification.fastchrom, an external library: a            *)
(* deterministic function of its four inputs that returns a baseline of    *)
(* the length of the data.  A sample is classified as baseline when the    *)
(* spread of the data in its window of half_window samples does not exceed *)
(* the threshold; a peak sample takes the value of the nearest baseline    *)
(* sample to its left, else to its right, else the minimum of the data.    *)
(* Without a threshold or half window the estimator derives them from the  *)
(* data.                                                                   *)

FastChrom(data, xdata, threshold, half_window) ==
    LET n   == Len(data)
        hw  == IF IsNone(half_window) THEN 1 ELSE half_window[1]
        th  == IF IsNone(threshold)
               THEN (SeqMax(data) - SeqMin(data)) \div 2
               ELSE threshold[1]
        win(i) == {j \in 1..n : j >= i - hw /\ j <= i + hw}
        spread(i) == SetMax({data[j] : j \in win(i)}) - SetMin({data[j] : j \in win(i)})
        base == {i \in 1..n : spread(i) <= th}
        left(i)  == {j \in base : j < i}
        right(i) == {j \in base : j > i}
        val(i) == IF i \in base THEN data[i]
                  ELSE IF left(i) # {} THEN data[SetMax(left(i))]
                  ELSE IF right(i) # {} THEN data[SetMin(right(i))]
                  ELSE SeqMin(data)
    IN  [i \in 1..n |-> val(i)]

----------------------------------------------------------------------------
(* Datamodel values.  A Value has a number, a unit and an optional error;  *)
(* an absent Value (None) has kind "None".                                 *)

inv_cm == "1 / cm"

NoValue == [kind |-> "None", value |-> 0, unit |-> "", error |-> None]

Value(value, unit, error) ==
    [kind |-> "Value", value |-> value, unit |-> unit, error |-> error]

\* a band without a fit argument: add_to_bands passes fit=None
NoFit == [kind |-> "None", model |-> "", formula |-> "", parameters |-> <<>>,
          area |-> NoValue]

\* Band(...) without a fit: the field's default_factory builds an empty Fit
DefaultFit == [kind |-> "Fit", model |-> "", formula |-> "", parameters |-> <<>>,
               area |-> NoValue]

Fit(model, formula, parameters, area) ==
    [kind |-> "Fit", model |-> model, formula |-> formula,
     parameters |-> parameters, area |-> area]

\* the object ids (uuid4) are left out: bands are compared by content
Band(assignment, location, start, end, fit) ==
    [assignment |-> assignment, location |-> location,
     start |-> start, end |-> end, fit |-> fit]

----------------------------------------------------------------------------
(* modules/ir_file_handler.py: the measurements of the experiment after    *)
(* _initialize_datamodel, set_background(["background"]) and               *)
(* fill_static_parameters for each sample.                                 *)

Measurement(id, type, intensity, mass, sample_area) ==
    [id |-> id, measurement_type |-> type,
     x |-> Wavenumbers, y |-> intensity,
     mass |-> mass, sample_area |-> sample_area]

LoadedMeasurements(y1, y2) ==
    << Measurement("m0", "background", BackgroundIntensity, NoValue, NoValue),
       Measurement("m1", "sample", y1, Value(10, "mg", None), Value(2, "cm2", None)),
       Measurement("m2", "sample", y2, Value(0, "mg", None), Value(3, "cm2", None)) >>

\* _define_background: the intensity column of the background measurement
DefineBackground(ms) ==
    LET bg == CHOOSE i \in 1..Len(ms) : ms[i].measurement_type = "background"
    IN  ms[bg].y

----------------------------------------------------------------------------
(* modules/analysis.py: construction of IRAnalysis                         *)

region_of_interest == <<1560, 1400>>

\* _set_background_object: the first measurement of type "background"
SetBackgroundObject(ms) ==
    LET bgs == {i \in 1..Len(ms) : ms[i].measurement_type = "background"}
    IN  ms[SetMin(bgs)]

\* Experiment.add_to_analysis: Analysis(sample_reference, background_reference,
\* corrected_data, baseline=None, bands=[], measurement_results=[])
NewAnalysis(sample_reference, background_reference, x, y) ==
    [sample_reference |-> sample_reference,
     background_reference |-> background_reference,
     x |-> x, y |-> y,
     has_baseline |-> FALSE, baseline |-> <<>>,
     bands |-> <<>>, measurement_results |-> <<>>]

\* _add_analysis_objects: one analysis object per "sample" measurement
AddAnalysisObjects(ms, existing) ==
    LET samples == SortedSeq({i \in 1..Len(ms) : ms[i].measurement_type = "sample"})
        bg == SetBackgroundObject(ms)
    IN  existing \o [k \in 1..Len(samples) |->
                       NewAnalysis(ms[samples[k]].id, bg.id,
                                   ms[samples[k]].x, ms[samples[k]].y)]

\* _subtract_background
SubtractBackground(a, bg_intensity) ==
    [a EXCEPT !.y = [i \in 1..Len(a.y) |-> a.y[i] - bg_intensity[i]]]

\* _truncate_data
TruncateData(a, region) ==
    LET df == DataframeTruncate([wavenumber |-> a.x, intensity |-> a.y], region)
    IN  [a EXCEPT !.x = df.wavenumber, !.y = df.intensity]

\* np.max of an empty array raises ValueError
ConvertOutcome(a, mode) ==
    IF mode = "transmittance" /\ Len(a.y) = 0 THEN "ValueError" ELSE "none"

\* the inversion applied whatever the detection mode is
ConvertTransmittanceToIntensityAlways(a, mode) ==
    LET m == SeqMax(a.y)
    IN  [a EXCEPT !.y = [i \in 1..Len(a.y) |-> - a.y[i] + m]]

\* _convert_transmittance_to_intensity
ConvertTransmittanceToIntensity(a, mode) ==
    IF mode = "transmittance"
    THEN LET m == SeqMax(a.y)
         IN  [a EXCEPT !.y = [i \in 1..Len(a.y) |-> - a.y[i] + m]]
    ELSE a

\* _prepare_analysis_data
PrepareAnalysisData(as, bg_intensity, region, mode) ==
    [k \in 1..Len(as) |->
        ConvertTransmittanceToIntensity(
            TruncateData(SubtractBackground(as[k], bg_intensity), region), mode)]

----------------------------------------------------------------------------
(* Units and quantities (astropy.units).  A unit is a power of ten times a *)
(* product of powers of the SI base units m, kg and mol.                   *)

UnitInfo(unit) ==
    CASE unit = "1 / cm"        -> [e |-> 2,  m |-> -1, kg |-> 0,  mol |-> 0]
      [] unit = "1 / m"         -> [e |-> 0,  m |-> -1, kg |-> 0,  mol |-> 0]
      [] unit = "cm2"           -> [e |-> -4, m |-> 2,  kg |-> 0,  mol |-> 0]
      [] unit = "mg"            -> [e |-> -6, m |-> 0,  kg |-> 1,  mol |-> 0]
      [] unit = "m / mol"       -> [e |-> 0,  m |-> 1,  kg |-> 0,  mol |-> -1]
      [] unit = "cm / umol"     -> [e |-> 4,  m |-> 1,  kg |-> 0,  mol |-> -1]
      [] unit = "1e-06 mol / g" -> [e |-> -3, m |-> 0,  kg |-> -1, mol |-> 1]
      [] unit = "dimensionless" -> [e |-> 0,  m |-> 0,  kg |-> 0,  mol |-> 0]

\* u.Quantity(value, unit): the number n/d in a unit
Quantity(n, d, unit) == [n |-> n, d |-> d, u |-> unit]

\* the default table built by __init__ through set_expected_peaks
ExpectedPeak(name, location, coefficient) ==
    [name |-> name, location |-> location, extinction_coefficient |-> coefficient]

default_expected_peaks ==
    << ExpectedPeak("Lewis",    Quantity(1455, 1, UnitInfo("1 / cm")),
                                Quantity(222, 100, UnitInfo("cm / umol"))),
       ExpectedPeak("Mixed",    Quantity(1491, 1, UnitInfo("1 / cm")),
                                Quantity(222, 100, UnitInfo("cm / umol"))),
       ExpectedPeak("Bronsted", Quantity(1545, 1, UnitInfo("1 / cm")),
                                Quantity(167, 100, UnitInfo("cm / umol"))) >>

----------------------------------------------------------------------------
(* The state after IRDataFiles(...), set_background, fill_static_parameters *)
(* and IRAnalysis(files)                                                    *)

Init ==
    \E mode \in {"absorbance", "transmittance", "intensity"} :
    \E ys \in SampleIntensities :
        LET ms == LoadedMeasurements(ys[1], ys[2])
            bg == DefineBackground(ms)
            as == PrepareAnalysisData(AddAnalysisObjects(ms, <<>>), bg,
                                      region_of_interest, mode)
        IN  /\ detection = mode
            /\ measurements = ms
            /\ background_df = bg
            /\ analysis = as
            /\ expected_peaks = default_expected_peaks
            /\ fit_models_attr = FALSE
            /\ last = [op |-> "__init__", spectrum_no |-> None, args |-> <<>>]
            /\ err = "none"
            /\ computed = <<>>
            /\ y0 = [k \in 1..Len(as) |-> as[k].y]
            /\ note = {}
            /\ calls = 0
            /\ pure = [op |-> "none"]

\* whether a call of set_expected_peaks has replaced the table of __init__
\* is kept in note across the calls
Supplied == note \cap {"table_supplied"}

\* the 0-based indices a caller may pass as spectrum_no
SpectrumNumbers == {None} \cup {Some(i) : i \in 0..(Len(analysis) - 1)}

----------------------------------------------------------------------------
(* modules/analysis.py: baseline_correction                                *)

\* "if not spectrum_no": None and 0 both select every analysis object
BaselineSelection(spectrum_no) ==
    IF IsNone(spectrum_no) \/ spectrum_no[1] = 0
    THEN 1..Len(analysis)
    ELSE {spectrum_no[1] + 1}

\* the loop body without the restoration of the previous baseline
BaselineStepNoRestore(a, threshold, half_window) ==
    LET baseline == FastChrom(a.y, a.x, threshold, half_window)
    IN  [a EXCEPT !.y = [i \in 1..Len(a.y) |-> a.y[i] - baseline[i]],
                  !.baseline = baseline,
                  !.has_baseline = TRUE]

\* the loop body with the previous baseline subtracted instead of added back
BaselineStepSubtract(a, threshold, half_window) ==
    LET corrected_intensity ==
            IF a.has_baseline
            THEN [i \in 1..Len(a.y) |-> a.y[i] - a.baseline[i]]
            ELSE a.y
        baseline == FastChrom(corrected_intensity, a.x, threshold, half_window)
    IN  [a EXCEPT !.y = [i \in 1..Len(a.y) |-> corrected_intensity[i] - baseline[i]],
                  !.baseline = baseline,
                  !.has_baseline = TRUE]

\* the loop body when it also discards the bands found on the old data
BaselineStepDroppingBands(a, threshold, half_window) ==
    LET corrected_intensity ==
            IF a.has_baseline
            THEN [i \in 1..Len(a.y) |-> a.y[i] + a.baseline[i]]
            ELSE a.y
        baseline == FastChrom(corrected_intensity, a.x, threshold, half_window)
    IN  [a EXCEPT !.y = [i \in 1..Len(a.y) |-> corrected_intensity[i] - baseline[i]],
                  !.baseline = baseline,
                  !.has_baseline = TRUE,
                  !.bands = <<>>]

\* the loop body for one analysis object
BaselineStep(a, threshold, half_window) ==
    LET corrected_intensity ==
            IF a.has_baseline
            THEN [i \in 1..Len(a.y) |-> a.y[i] + a.baseline[i]]
            ELSE a.y
        baseline == FastChrom(corrected_intensity, a.x, threshold, half_window)
    IN  [a EXCEPT !.y = [i \in 1..Len(a.y) |-> corrected_intensity[i] - baseline[i]],
                  !.baseline = baseline,
                  !.has_baseline = TRUE]

\* what fastchrom does with the data of analysis object a: on empty data the
\* library either raises or returns an empty baseline (fails says which)
BaselineOutcome(a, fails) ==
    IF Len(a.y) = 0 /\ fails THEN "ValueError" ELSE "none"

baseline_correction(spectrum_no, threshold, half_window, fails) ==
    /\ calls < MaxCalls
    /\ \E stop \in {SetMin({k \in BaselineSelection(spectrum_no) :
                                 BaselineOutcome(analysis[k], fails) # "none"}
                            \cup {Len(analysis) + 1})} :
          /\ analysis' = [k \in 1..Len(analysis) |->
                            IF k \in BaselineSelection(spectrum_no) /\ k < stop
                            THEN BaselineStep(analysis[k], threshold, half_window)
                            ELSE analysis[k]]
          /\ err' = IF stop > Len(analysis) THEN "none"
                    ELSE BaselineOutcome(analysis[stop], fails)
    /\ last' = [op |-> "baseline_correction", spectrum_no |-> spectrum_no,
                args |-> <<threshold, half_window>>]
    /\ note' = IF /\ last.op = "baseline_correction"
                  /\ last.args = <<threshold, half_window>>
                  /\ BaselineSelection(last.spectrum_no) \cap BaselineSelection(spectrum_no) # {}
               THEN {"repeated"} \cup Supplied ELSE Supplied
    /\ calls' = calls + 1
    /\ UNCHANGED <<pure, detection, measurements, background_df, expected_peaks,
                   fit_models_attr, computed, y0>>

BaselineCorrection ==
    \E spectrum_no \in SpectrumNumbers :
    \E parameters \in {<<None, None>>, <<Some(1), Some(2)>>, <<Some(0), None>>} :
    \E fails \in BOOLEAN :
        baseline_correction(spectrum_no, parameters[1], parameters[2], fails)

----------------------------------------------------------------------------
(* scipy.signal.find_peaks(intensity, prominence=p) and peak_widths, an    *)
(* external library, in 1-based positions.                                 *)

\* _local_maxima_1d: the midpoints of the plateaus that are higher than both
\* neighbours; the first and the last sample are never peaks
LocalMaxima(y) ==
    LET n == Len(y)
        plateau(l, r) == /\ \A j \in l..r : y[j] = y[l]
                         /\ y[l - 1] < y[l]
                         /\ y[r + 1] < y[r]
    IN  { ((l + r - 2) \div 2) + 1 :
            <<l, r>> \in {lr \in (2..(n - 1)) \X (2..(n - 1)) :
                            lr[1] <= lr[2] /\ plateau(lr[1], lr[2])} }

\* _peak_prominences: bases and prominence of the peak at p
PeakProminence(y, p) ==
    LET n == Len(y)
        L == SetMin({l \in 1..p : \A j \in l..p : y[j] <= y[p]})
        R == SetMax({r \in p..n : \A j \in p..r : y[j] <= y[p]})
        left_min  == SetMin({y[j] : j \in L..p})
        right_min == SetMin({y[j] : j \in p..R})
    IN  [left_base  |-> SetMax({j \in L..p : y[j] = left_min}),
         right_base |-> SetMin({j \in p..R : y[j] = right_min}),
         prominence |-> y[p] - Max2(left_min, right_min)]

\* numpy round (half to even) of the 0-based position i0 + a/b, 0 <= a/b < 1
RoundHalfEven(i0, a, b) ==
    IF 2 * a < b THEN i0
    ELSE IF 2 * a > b THEN i0 + 1
    ELSE IF i0 % 2 = 0 THEN i0 ELSE i0 + 1

\* _peak_widths followed by .round(): the 1-based positions nearest to the
\* crossings of the evaluation height, rel_height given in percent
PeakWidth(y, p, rel_height) ==
    LET pr == PeakProminence(y, p)
        h  == 100 * y[p] - pr.prominence * rel_height
        il == SetMax({i \in 1..p : ~(pr.left_base < i /\ h < 100 * y[i])})
        ir == SetMin({i \in p..Len(y) : ~(i < pr.right_base /\ h < 100 * y[i])})
        left_ip  == IF 100 * y[il] < h
                    THEN RoundHalfEven(il - 1, h - 100 * y[il],
                                       100 * (y[il + 1] - y[il]))
                    ELSE il - 1
        \* right_ip = ir - a/b = (ir - 1) + (b - a)/b
        right_ip == IF 100 * y[ir] < h
                    THEN RoundHalfEven(ir - 2,
                                       100 * (y[ir - 1] - y[ir]) - (h - 100 * y[ir]),
                                       100 * (y[ir - 1] - y[ir]))
                    ELSE ir - 1
    IN  [left |-> left_ip + 1, right |-> right_ip + 1]

(* modules/utils.py: _find_bands.  The rows of the returned dataframe, in  *)
(* ascending order of the peak position.                                   *)
FindBandsDf(spectrum_df, prominence, rel_height) ==
    LET y == spectrum_df.intensity
        w == spectrum_df.wavenumber
        peaks == SortedSeq({p \in LocalMaxima(y) :
                              PeakProminence(y, p).prominence >= prominence})
    IN  [k \in 1..Len(peaks) |->
            LET pw == PeakWidth(y, peaks[k], rel_height)
            IN  [peaks |-> w[peaks[k]],
                 peak_min |-> w[pw.left],
                 peak_max |-> w[pw.right]]]

----------------------------------------------------------------------------
(* modules/utils.py: _auto_assign_band.  The raw numbers of the expected   *)
(* locations and of the band location are subtracted; argmin returns the   *)
(* first position of the smallest difference.                              *)

\* the classifier with the last position of the smallest difference
AutoAssignBandLast(peak_location, table) ==
    LET num(k) == Abs(table[k].location.n - peak_location.value * table[k].location.d)
        den(k) == table[k].location.d
        leq(a, b) == num(a) * den(b) <= num(b) * den(a)
        best == SetMax({a \in 1..Len(table) : \A b \in 1..Len(table) : leq(a, b)})
    IN  table[best].name

AutoAssignBand(peak_location, table) ==
    LET num(k) == Abs(table[k].location.n - peak_location.value * table[k].location.d)
        den(k) == table[k].location.d
        leq(a, b) == num(a) * den(b) <= num(b) * den(a)
        best == SetMin({a \in 1..Len(table) : \A b \in 1..Len(table) : leq(a, b)})
    IN  table[best].name

----------------------------------------------------------------------------
(* modules/analysis.py: find_bands                                         *)

\* the Band built for row band of the detection without a classification
DetectedBandUnassigned(band, table, fit) ==
    LET peak  == Value(band.peaks, inv_cm, None)
        start == Value(band.peak_min, inv_cm, None)
        end   == Value(band.peak_max, inv_cm, None)
    IN  Band("", peak, start, end, fit)

\* the Band built for row band of the detection
DetectedBand(band, table, fit) ==
    LET peak  == Value(band.peaks, inv_cm, None)
        start == Value(band.peak_min, inv_cm, None)
        end   == Value(band.peak_max, inv_cm, None)
    IN  Band(AutoAssignBand(peak, table), peak, start, end, fit)

Detect(a, prominence, rel_height) ==
    FindBandsDf([wavenumber |-> a.x, intensity |-> a.y], prominence, rel_height)

\* the detected bands take the place of the existing ones
AppendDetectedReplacing(a, rows, table) ==
    [a EXCEPT !.bands =
                 [k \in 1..Len(rows) |-> DetectedBand(rows[k], table, NoFit)]]

\* Analysis.add_to_bands for every row: Band(..., fit=None) is appended
AppendDetected(a, rows, table) ==
    [a EXCEPT !.bands = a.bands \o
                 [k \in 1..Len(rows) |-> DetectedBand(rows[k], table, NoFit)]]

\* spectrum_no is no int: every analysis object, bands are appended
find_bands_all(spectrum_no, prominence, rel_height) ==
    /\ IsNone(spectrum_no)
    /\ analysis' = [k \in 1..Len(analysis) |->
                      AppendDetected(analysis[k],
                                     Detect(analysis[k], prominence, rel_height),
                                     expected_peaks)]
    /\ err' = "none"

\* spectrum_no is an int: the first row overwrites bands[0] and the call
\* returns from inside the loop over the rows.  Band(...) is built without a
\* fit, so the field's default factory Fit() runs with the required field
\* model missing: whether that yields an empty Fit or a ValidationError is
\* decided by the data-model base class (sdRDM), which is not part of the
\* sources, so both outcomes are possible here.
find_bands_one(spectrum_no, prominence, rel_height) ==
    /\ ~IsNone(spectrum_no)
    /\ LET u == spectrum_no[1] + 1
           rows == Detect(analysis[u], prominence, rel_height)
       IN  IF Len(rows) = 0
           THEN /\ analysis' = analysis
                /\ err' = "none"
           ELSE IF Len(analysis[u].bands) = 0
           THEN /\ analysis' = analysis
                /\ err' = "IndexError"
           ELSE \/ /\ analysis' = [analysis EXCEPT ![u].bands[1] =
                                      DetectedBand(rows[1], expected_peaks, DefaultFit)]
                   /\ err' = "none"
                \/ /\ analysis' = analysis
                   /\ err' = "ValidationError"

find_bands(spectrum_no, prominence, rel_height) ==
    /\ calls < MaxCalls
    /\ \/ find_bands_all(spectrum_no, prominence, rel_height)
       \/ find_bands_one(spectrum_no, prominence, rel_height)
    /\ last' = [op |-> "find_bands", spectrum_no |-> spectrum_no,
                args |-> <<prominence, rel_height>>]
    /\ note' = IF /\ IsNone(spectrum_no)
                  /\ \/ calls = 0
                     \/ /\ "only_find_bands" \in note
                        /\ last.args = <<prominence, rel_height>>
               THEN {"only_find_bands"} \cup Supplied ELSE Supplied
    /\ calls' = calls + 1
    /\ UNCHANGED <<pure, detection, measurements, background_df, expected_peaks,
                   fit_models_attr, computed, y0>>

FindBands ==
    \E spectrum_no \in SpectrumNumbers :
    \E prominence \in {1, 3}, rel_height \in {96} :
        find_bands(spectrum_no, prominence, rel_height)

----------------------------------------------------------------------------
(* modules/analysis.py: fit_bands and _fit_band                            *)

\* scipy.optimize.curve_fit through utils._fit_curve, an external solver:
\* the optimum and the standard deviations it returns for a band when it
\* converges.  The Gauss-Lorentz model has the parameters (area, loc, scale,
\* l_fraction); a user model here has the two parameters (area, loc).
CurveFit(band, custom) ==
    IF custom
    THEN [popt |-> <<3, band.location.value>>, perror |-> <<2, 1>>]
    ELSE [popt |-> <<5, band.location.value, 3, 1>>, perror |-> <<1, 2, 3, 0>>]

\* _fit_band with the area taken from the second parameter
FitBandAreaFromLocation(r, fit_model_description, fit_parameter_units) ==
    LET fit_formula == IF fit_model_description = "Gauss-Lorentz"
                       THEN "[z * GaussianPDF + (1-z) * CauchyPDF] * area"
                       ELSE "Unknown"
        fit_area == Value(r.popt[2], inv_cm, Some(r.perror[2]))
        unit(no) == IF fit_parameter_units # <<"dimensionless">>
                    THEN fit_parameter_units[no]
                    ELSE "dimensionless"
        parameters == [no \in 1..Len(r.popt) |->
                          Value(r.popt[no], unit(no), Some(r.perror[no]))]
    IN  Fit(fit_model_description, fit_formula, parameters, fit_area)

\* _fit_band after the solver has returned r
FitBand(r, fit_model_description, fit_parameter_units) ==
    LET fit_formula == IF fit_model_description = "Gauss-Lorentz"
                       THEN "[z * GaussianPDF + (1-z) * CauchyPDF] * area"
                       ELSE "Unknown"
        fit_area == Value(r.popt[1], inv_cm, Some(r.perror[1]))
        unit(no) == IF fit_parameter_units # <<"dimensionless">>
                    THEN fit_parameter_units[no]
                    ELSE "dimensionless"
        parameters == [no \in 1..Len(r.popt) |->
                          Value(r.popt[no], unit(no), Some(r.perror[no]))]
    IN  Fit(fit_model_description, fit_formula, parameters, fit_area)

\* the branch taken for a band: a missing (None or empty) argument selects
\* the single Gauss-Lorentz curve, all three given select the user's lists
FitBranch(fit_models, fit_parameter_bounds, fit_parameter_guesses) ==
    IF ~fit_parameter_bounds \/ ~fit_parameter_guesses \/ ~fit_models
    THEN "default"
    ELSE IF fit_models /\ fit_parameter_bounds /\ fit_parameter_guesses
    THEN "custom"
    ELSE "ValueError"

single_gl_units == <<inv_cm, inv_cm, inv_cm, "dimensionless">>

\* the units of a user model's parameters when fit_parameter_units is left []
CustomUnits(r) == [i \in 1..Len(r.popt) |-> "dimensionless"]

\* the Fit attached to a band whose fit converges
NewFit(band, branch, description) ==
    LET custom == branch = "custom"
        r == CurveFit(band, custom)
    IN  FitBand(r, description, IF custom THEN CustomUnits(r) ELSE single_gl_units)

\* the (analysis object, band) positions visited by the loops, in order
RECURSIVE BandPositions(_, _)
BandPositions(units, as) ==
    IF Len(units) = 0 THEN <<>>
    ELSE [b \in 1..Len(as[units[1]].bands) |-> <<units[1], b>>]
         \o BandPositions(Tail(units), as)

\* the data handed to the solver with the rows on the band's start and end
BandDataInclusive(a, band) ==
    DataframeTruncateInclusive([wavenumber |-> a.x, intensity |-> a.y],
                               <<band.start.value, band.end.value>>)

\* the data handed to the solver for a band of analysis object a
BandData(a, band) ==
    DataframeTruncate([wavenumber |-> a.x, intensity |-> a.y],
                      <<band.start.value, band.end.value>>)

\* what happens to the band at position pos: the window is cut with the
\* band's start and end, then the branch is chosen, then the solver runs
FitOutcome(a, band, branch, converges) ==
    IF band.start.kind = "None" \/ band.end.kind = "None"
    THEN "AttributeError"
    ELSE IF branch = "ValueError"
    THEN "ValueError"
    ELSE IF Len(BandData(a, band).wavenumber) = 0
    THEN "ValueError"
    ELSE IF ~converges
    THEN "RuntimeError"
    ELSE "none"

\* only the bands at the positions in fitted that have no area yet get a Fit
AttachFitsKeepExisting(as, fitted, branch, description) ==
    [k \in 1..Len(as) |->
        [as[k] EXCEPT !.bands =
            [b \in 1..Len(as[k].bands) |->
                IF <<k, b>> \in fitted /\ as[k].bands[b].fit.area.kind # "Value"
                THEN [as[k].bands[b] EXCEPT !.fit =
                        NewFit(as[k].bands[b], branch, description)]
                ELSE as[k].bands[b]]]]

\* the bands at the positions in fitted get their new Fit and the fitted
\* location as their location
AttachFitsMovingLocation(as, fitted, branch, description) ==
    [k \in 1..Len(as) |->
        [as[k] EXCEPT !.bands =
            [b \in 1..Len(as[k].bands) |->
                IF <<k, b>> \in fitted
                THEN [as[k].bands[b] EXCEPT
                        !.fit = NewFit(as[k].bands[b], branch, description),
                        !.location = NewFit(as[k].bands[b], branch,
                                            description).parameters[2]]
                ELSE as[k].bands[b]]]]

\* the bands of every analysis object at the band numbers in fitted get
\* their new Fit
AttachFitsEveryUnit(as, fitted, branch, description) ==
    [k \in 1..Len(as) |->
        [as[k] EXCEPT !.bands =
            [b \in 1..Len(as[k].bands) |->
                IF \E p \in fitted : p[2] = b
                THEN [as[k].bands[b] EXCEPT !.fit =
                        NewFit(as[k].bands[b], branch, description)]
                ELSE as[k].bands[b]]]]

\* the bands at the positions in fitted get their new Fit and every other
\* band gets the empty Fit
AttachFitsSubstituteDefault(as, fitted, branch, description) ==
    [k \in 1..Len(as) |->
        [as[k] EXCEPT !.bands =
            [b \in 1..Len(as[k].bands) |->
                IF <<k, b>> \in fitted
                THEN [as[k].bands[b] EXCEPT !.fit =
                        NewFit(as[k].bands[b], branch, description)]
                ELSE [as[k].bands[b] EXCEPT !.fit = DefaultFit]]]]

\* the bands of as at the positions in fitted get their new Fit
AttachFits(as, fitted, branch, description) ==
    [k \in 1..Len(as) |->
        [as[k] EXCEPT !.bands =
            [b \in 1..Len(as[k].bands) |->
                IF <<k, b>> \in fitted
                THEN [as[k].bands[b] EXCEPT !.fit =
                        NewFit(as[k].bands[b], branch, description)]
                ELSE as[k].bands[b]]]]

fit_bands(spectrum_no, description, fit_models, fit_parameter_bounds, fit_parameter_guesses, fail_at) ==
    /\ calls < MaxCalls
    /\ LET units == IF IsNone(spectrum_no)
                    THEN [k \in 1..Len(analysis) |-> k]
                    ELSE <<spectrum_no[1] + 1>>
           branch == FitBranch(fit_models, fit_parameter_bounds, fit_parameter_guesses)
       IN  \E pos \in {BandPositions(units, analysis)} :
             /\ fail_at <= Len(pos)
             /\ \E outcome \in {[j \in 1..Len(pos) |->
                                   FitOutcome(analysis[pos[j][1]],
                                              analysis[pos[j][1]].bands[pos[j][2]],
                                              branch, j # fail_at)]} :
                \E stop \in {SetMin({j \in 1..Len(pos) : outcome[j] # "none"}
                                    \cup {Len(pos) + 1})} :
                  /\ analysis' = AttachFits(analysis, {pos[j] : j \in 1..(stop - 1)},
                                            branch, description)
                  /\ err' = IF stop > Len(pos) THEN "none" ELSE outcome[stop]
                  /\ note' = IF \E j \in 1..(stop - 1) :
                                   LET band == analysis[pos[j][1]].bands[pos[j][2]]
                                   IN  /\ band.fit.area.kind = "Value"
                                       /\ band.fit # NewFit(band, branch, description)
                             THEN {"overwrote"} \cup Supplied ELSE Supplied
    /\ fit_models_attr' = (fit_models \/ fit_models_attr)
    /\ last' = [op |-> "fit_bands", spectrum_no |-> spectrum_no,
                args |-> <<fit_models, fit_parameter_bounds, fit_parameter_guesses>>,
                fail_at |-> fail_at]
    /\ calls' = calls + 1
    /\ UNCHANGED <<pure, detection, measurements, background_df, expected_peaks,
                   computed, y0>>

FitBands ==
    \E spectrum_no \in SpectrumNumbers :
    \E fit_models \in BOOLEAN, fit_parameter_bounds \in BOOLEAN,
       fit_parameter_guesses \in BOOLEAN :
    \E fail_at \in 0..2 :
        fit_bands(spectrum_no, "Gauss-Lorentz", fit_models, fit_parameter_bounds,
                  fit_parameter_guesses, fail_at)

----------------------------------------------------------------------------
(* modules/analysis.py: set_expected_peaks                                 *)

\* a second table an analyst may supply: other names, coefficients in m / mol
other_expected_peaks ==
    << ExpectedPeak("A", Quantity(1455, 1, UnitInfo("1 / cm")),
                         Quantity(22200, 1, UnitInfo("m / mol"))),
       ExpectedPeak("B", Quantity(1491, 1, UnitInfo("1 / cm")),
                         Quantity(0, 1, UnitInfo("m / mol"))),
       ExpectedPeak("C", Quantity(1545, 1, UnitInfo("1 / cm")),
                         Quantity(22200, 1, UnitInfo("m / mol"))) >>

\* a table whose first extinction coefficient is given as a bare number:
\* u.Quantity(22200) is a dimensionless Quantity
bare_expected_peaks ==
    << ExpectedPeak("A", Quantity(1455, 1, UnitInfo("1 / cm")),
                         Quantity(22200, 1, UnitInfo("dimensionless"))),
       ExpectedPeak("B", Quantity(1491, 1, UnitInfo("1 / cm")),
                         Quantity(22200, 1, UnitInfo("m / mol"))),
       ExpectedPeak("C", Quantity(1545, 1, UnitInfo("1 / cm")),
                         Quantity(22200, 1, UnitInfo("m / mol"))) >>

set_expected_peaks(table) ==
    /\ calls < MaxCalls
    /\ expected_peaks' = table
    /\ last' = [op |-> "set_expected_peaks", spectrum_no |-> None, args |-> <<>>]
    /\ note' = {"table_supplied"}
    /\ err' = "none"
    /\ calls' = calls + 1
    /\ UNCHANGED <<pure, detection, measurements, background_df, analysis,
                   fit_models_attr, computed, y0>>

SetExpectedPeaks ==
    \E table \in {default_expected_peaks, other_expected_peaks} :
        set_expected_peaks(table)

----------------------------------------------------------------------------
(* Quantity arithmetic (astropy.units.Quantity): exact rationals n/d; a    *)
(* division by zero gives d = 0, which stands for inf (n # 0) or nan       *)
(* (n = 0), as numpy's float division does without raising.                *)

UnitMul(a, b) == [e |-> a.e + b.e, m |-> a.m + b.m, kg |-> a.kg + b.kg,
                  mol |-> a.mol + b.mol]

UnitDiv(a, b) == [e |-> a.e - b.e, m |-> a.m - b.m, kg |-> a.kg - b.kg,
                  mol |-> a.mol - b.mol]

SameDimension(a, b) == a.m = b.m /\ a.kg = b.kg /\ a.mol = b.mol

QMul(a, b) == [n |-> a.n * b.n, d |-> a.d * b.d, u |-> UnitMul(a.u, b.u)]

QDiv(a, b) == [n |-> a.n * b.d, d |-> a.d * b.n, u |-> UnitDiv(a.u, b.u)]

\* the fraction n/d in lowest terms with d >= 0
Reduced(n, d) ==
    LET g == GCD(Abs(n), Abs(d))
        s == IF d < 0 THEN -1 ELSE 1
    IN  IF g = 0 THEN [n |-> 0, d |-> 0]
        ELSE [n |-> s * (n \div g), d |-> s * (d \div g)]

\* Quantity.to without the scale factor between the units
QToUnscaled(q, unit) ==
    LET r == Reduced(q.n, q.d)
    IN  [n |-> r.n, d |-> r.d, u |-> UnitInfo(unit)]

\* Quantity.to(unit) for units of the same dimension
QTo(q, unit) ==
    LET k == q.u.e - UnitInfo(unit).e
        r == IF k >= 0 THEN Reduced(q.n * Pow10(k), q.d)
             ELSE Reduced(q.n, q.d * Pow10(-k))
    IN  [n |-> r.n, d |-> r.d, u |-> UnitInfo(unit)]

IsInf(r) == r.d = 0 /\ r.n # 0

IsNaN(r) == r.d = 0 /\ r.n = 0

\* _get_quantity_object without the error switch: always the value
GetQuantityObjectValueOnly(value_object, error) ==
    Quantity(value_object.value, 1, UnitInfo(value_object.unit))

\* modules/utils.py: _get_quantity_object
GetQuantityObject(value_object, error) ==
    IF error
    THEN Quantity(value_object.error[1], 1, UnitInfo(value_object.unit))
    ELSE Quantity(value_object.value, 1, UnitInfo(value_object.unit))

----------------------------------------------------------------------------
(* modules/analysis.py: _quantify_from_area and quantify                   *)

\* the measurement whose id is the sample_reference; the loop keeps the last
SampleMeasurement(ms, a) ==
    ms[SetMax({i \in 1..Len(ms) : ms[i].id = a.sample_reference})]

QuantifyFromArea(ms, a, peak_area, extinction_coefficient, error) ==
    LET m == SampleMeasurement(ms, a)
        sample_mass == GetQuantityObject(m.mass, FALSE)
        sample_area == GetQuantityObject(m.sample_area, FALSE)
        area == GetQuantityObject(peak_area, error)
    IN  QDiv(QMul(sample_area, area), QMul(sample_mass, extinction_coefficient))

reporting_unit == "1e-06 mol / g"

\* the row of the table with the given name
PeakRow(table, name) ==
    table[CHOOSE k \in 1..Len(table) : table[k].name = name]

PeakNames(table) == {table[k].name : k \in 1..Len(table)}

\* the parameters of Analysis.add_to_measurement_results
add_to_measurement_results_parameters == {"name", "values", "units", "id"}

\* the keywords quantify passes to add_to_measurement_results
quantify_keywords == {"name", "value"}

\* the name under which a band is quantified
QuantifyAssignment(band, table) ==
    IF band.assignment \in PeakNames(table)
    THEN band.assignment
    ELSE AutoAssignBand(band.location, table)

\* the first exception the loop body raises for a band, "none" if it
\* reaches the end of the body
QuantifyOutcome(ms, a, band, table) ==
    IF band.assignment \notin PeakNames(table) /\ band.location.kind = "None"
    THEN "AttributeError"
    ELSE IF band.fit.kind = "None"
    THEN "AttributeError"
    ELSE IF SampleMeasurement(ms, a).mass.kind = "None"
            \/ SampleMeasurement(ms, a).sample_area.kind = "None"
            \/ band.fit.area.kind = "None"
    THEN "AttributeError"
    ELSE IF IsNone(band.fit.area.error)
    THEN "TypeError"
    ELSE IF ~SameDimension(
                QuantifyFromArea(ms, a, band.fit.area,
                    PeakRow(table, QuantifyAssignment(band, table)).extinction_coefficient,
                    FALSE).u,
                UnitInfo(reporting_unit))
    THEN "UnitConversionError"
    ELSE IF ~(quantify_keywords \subseteq add_to_measurement_results_parameters)
    THEN "TypeError"
    ELSE "none"

\* the Value built for a band before it is handed to add_to_measurement_results
QuantityValue(ms, a, band, table) ==
    LET name == QuantifyAssignment(band, table)
        ext  == PeakRow(table, name).extinction_coefficient
        quantity == QTo(QuantifyFromArea(ms, a, band.fit.area, ext, FALSE),
                        reporting_unit)
        quantity_error == QTo(QuantifyFromArea(ms, a, band.fit.area, ext, TRUE),
                              reporting_unit)
    IN  [name |-> name,
         value |-> [n |-> quantity.n, d |-> quantity.d],
         unit |-> reporting_unit,
         error |-> [n |-> quantity_error.n, d |-> quantity_error.d]]

\* whether the body got as far as building the Value for the band
ValueBuilt(ms, a, band, table) ==
    QuantifyOutcome(ms, a, band, table) = "none"
    \/ /\ QuantifyOutcome(ms, a, band, table) = "TypeError"
       /\ band.fit.kind # "None"
       /\ band.fit.area.kind # "None"
       /\ ~IsNone(band.fit.area.error)

\* every band of every analysis object gets a Result entry, whether or not
\* the loop reached it
AppendResultsForEveryBand(as, ms, stored, table) ==
    [k \in 1..Len(as) |->
        [as[k] EXCEPT !.measurement_results =
            as[k].measurement_results \o
            [j \in 1..Len(as[k].bands) |->
                [name |-> as[k].bands[j].assignment, value |-> NoValue]]]]

\* Analysis.add_to_measurement_results for the bands at the positions stored
AppendResults(as, ms, stored, table) ==
    [k \in 1..Len(as) |->
        [as[k] EXCEPT !.measurement_results =
            as[k].measurement_results \o
            [j \in 1..Cardinality({p \in stored : p[1] = k}) |->
                LET v == QuantityValue(ms, as[k], as[k].bands[j], table)
                IN  [name |-> v.name, value |-> v]]]]

\* a quantify that stops at the first band and leaves another table behind
quantifyReplacingTable ==
    /\ calls < MaxCalls
    /\ expected_peaks' = other_expected_peaks
    /\ err' = "TypeError"
    /\ last' = [op |-> "quantify", spectrum_no |-> None, args |-> <<>>]
    /\ note' = Supplied
    /\ calls' = calls + 1
    /\ UNCHANGED <<pure, detection, measurements, background_df, analysis,
                   fit_models_attr, computed, y0>>

quantify ==
    /\ calls < MaxCalls
    /\ \E pos \in {BandPositions([k \in 1..Len(analysis) |-> k], analysis)} :
       \E outcome \in {[j \in 1..Len(pos) |->
                          QuantifyOutcome(measurements, analysis[pos[j][1]],
                                          analysis[pos[j][1]].bands[pos[j][2]],
                                          expected_peaks)]} :
       \E stop \in {SetMin({j \in 1..Len(pos) : outcome[j] # "none"}
                           \cup {Len(pos) + 1})} :
          /\ analysis' = AppendResults(analysis, measurements,
                                       {pos[j] : j \in 1..(stop - 1)}, expected_peaks)
          /\ computed' = [j \in 1..(IF stop <= Len(pos)
                                       /\ ValueBuilt(measurements, analysis[pos[stop][1]],
                                                     analysis[pos[stop][1]].bands[pos[stop][2]],
                                                     expected_peaks)
                                    THEN stop ELSE stop - 1) |->
                            [unit |-> pos[j][1], band |-> pos[j][2],
                             result |-> QuantityValue(measurements, analysis[pos[j][1]],
                                                      analysis[pos[j][1]].bands[pos[j][2]],
                                                      expected_peaks)]]
          /\ err' = IF stop > Len(pos) THEN "none" ELSE outcome[stop]
    /\ last' = [op |-> "quantify", spectrum_no |-> None, args |-> <<>>]
    /\ note' = Supplied
    /\ calls' = calls + 1
    /\ UNCHANGED <<pure, detection, measurements, background_df, expected_peaks,
                   fit_models_attr, y0>>

Quantify == quantify

----------------------------------------------------------------------------
(* modules/analysis.py: add_band                                           *)

\* the parameters of Analysis.add_to_bands
add_to_bands_parameters == {"assignment", "fit", "location", "start", "end", "id"}

\* the keywords add_band passes to add_to_bands
add_band_keywords == {"assignment", "location", "fit", "extinction_coefficient"}

\* the Band add_band asks for: a location, an area-only Fit, no start or end
ManualBand(assignment, location, area, fit_model) ==
    Band(assignment, Value(location, inv_cm, None), NoValue, NoValue,
         Fit(fit_model, "", <<>>, Value(area, inv_cm, Some(0))))

add_band(spectrum_no, assignment, location, area, fit_model) ==
    /\ calls < MaxCalls
    /\ IF add_band_keywords \subseteq add_to_bands_parameters
       THEN /\ analysis' = [analysis EXCEPT ![spectrum_no + 1].bands =
                              Append(@, ManualBand(assignment, location, area, fit_model))]
            /\ err' = "none"
       ELSE /\ analysis' = analysis
            /\ err' = "TypeError"
    /\ last' = [op |-> "add_band", spectrum_no |-> Some(spectrum_no), args |-> <<>>]
    /\ note' = Supplied
    /\ calls' = calls + 1
    /\ UNCHANGED <<pure, detection, measurements, background_df, expected_peaks,
                   fit_models_attr, computed, y0>>

AddBand ==
    \E spectrum_no \in 0..(Len(analysis) - 1) :
        add_band(spectrum_no, "", 1500, 5, "")

----------------------------------------------------------------------------
Next == \/ BaselineCorrection
        \/ FindBands
        \/ FitBands
        \/ SetExpectedPeaks
        \/ Quantify
        \/ AddBand

Spec == Init /\ [][Next]_vars

----------------------------------------------------------------------------
(* The helper functions of modules/utils.py and the preparation steps of   *)
(* modules/analysis.py applied on their own to small inputs.  No           *)
(* IRAnalysis object takes part: the session variables stay at NoSession.  *)

MaxLen == 3

MaxX == 4

NoSession ==
    /\ detection = "intensity"
    /\ measurements = <<>>
    /\ background_df = <<>>
    /\ analysis = <<>>
    /\ expected_peaks = <<>>
    /\ fit_models_attr = FALSE
    /\ last = [op |-> "none", spectrum_no |-> None, args |-> <<>>]
    /\ err = "none"
    /\ computed = <<>>
    /\ y0 = <<>>
    /\ note = {}
    /\ calls = 0

\* the sequences over S of length at most n
SeqsUpTo(S, n) == UNION {[1..k -> S] : k \in 0..n}

\* the dataframes handed to _dataframe_truncate: two columns of one length
Dataframes ==
    { [wavenumber |-> w, intensity |-> y] :
        <<w, y>> \in { wy \in SeqsUpTo(1..MaxX, MaxLen) \X SeqsUpTo(0..1, MaxLen) :
                          Len(wy[1]) = Len(wy[2]) } }

InitTruncate ==
    /\ NoSession
    /\ \E df \in Dataframes :
       \E low \in 0..(MaxX + 1), high \in 0..(MaxX + 1) :
          pure = [op |-> "input", dataframe |-> df, low |-> low, high |-> high,
                  as_given |-> None, swapped |-> None]

\* utils._dataframe_truncate(dataframe, (low, high))
TruncateAsGiven ==
    /\ pure.op \in {"input", "truncated"}
    /\ IsNone(pure.as_given)
    /\ pure' = [pure EXCEPT !.op = "truncated",
                            !.as_given = Some(DataframeTruncate(pure.dataframe,
                                                  <<pure.low, pure.high>>))]
    /\ UNCHANGED session

\* utils._dataframe_truncate(dataframe, (high, low))
TruncateSwapped ==
    /\ pure.op \in {"input", "truncated"}
    /\ IsNone(pure.swapped)
    /\ pure' = [pure EXCEPT !.op = "truncated",
                            !.swapped = Some(DataframeTruncate(pure.dataframe,
                                                 <<pure.high, pure.low>>))]
    /\ UNCHANGED session

NextTruncate == TruncateAsGiven \/ TruncateSwapped

SpecTruncate == InitTruncate /\ [][NextTruncate]_vars

\* fit_bands cuts the window of a band out of the unit's corrected data: the
\* unit's data and the band's start and end are the inputs
InitBandData ==
    /\ NoSession
    /\ \E df \in Dataframes :
       \E start \in 0..(MaxX + 1), end \in 0..(MaxX + 1) :
          pure = [op |-> "band", x |-> df.wavenumber, y |-> df.intensity,
                  start |-> start, end |-> end, band_data |-> None]

CutBandData ==
    /\ pure.op = "band"
    /\ pure' = [pure EXCEPT
                  !.op = "cut",
                  !.band_data = Some(BandData([x |-> pure.x, y |-> pure.y],
                                              [start |-> Value(pure.start, inv_cm, None),
                                               end |-> Value(pure.end, inv_cm, None)]))]
    /\ UNCHANGED session

NextBandData == CutBandData

SpecBandData == InitBandData /\ [][NextBandData]_vars

\* the detection modes of IRDataFiles
DetectionModes == {"absorbance", "transmittance", "intensity"}

\* background-subtracted intensities may be negative
Intensities == -1..2

InitConvert ==
    /\ NoSession
    /\ \E y \in SeqsUpTo(Intensities, MaxLen), mode \in DetectionModes :
          pure = [op |-> "input", y |-> y, mode |-> mode, out |-> <<>>,
                  err |-> "none"]

\* IRAnalysis._convert_transmittance_to_intensity on a unit with working y
Convert ==
    /\ pure.op = "input"
    /\ pure' = [pure EXCEPT
                  !.op = "converted",
                  !.out = ConvertTransmittanceToIntensity([y |-> pure.y], pure.mode).y,
                  !.err = ConvertOutcome([y |-> pure.y], pure.mode)]
    /\ UNCHANGED session

NextConvert == Convert

SpecConvert == InitConvert /\ [][NextConvert]_vars

\* the band locations handed to the classifier, in 1 / cm
BandLocations == 1440..1560

\* the table of other_expected_peaks in the opposite order
reversed_expected_peaks ==
    [k \in 1..Len(other_expected_peaks) |->
        other_expected_peaks[Len(other_expected_peaks) + 1 - k]]

\* the table of other_expected_peaks with the first location given as
\* "145500 1 / m", the same wavenumber as 1455 1 / cm
mixed_unit_expected_peaks ==
    [other_expected_peaks EXCEPT ![1].location = Quantity(145500, 1, UnitInfo("1 / m"))]

\* the tables set_expected_peaks may have built
ExpectedPeakTables ==
    {default_expected_peaks, other_expected_peaks, reversed_expected_peaks,
     mixed_unit_expected_peaks}

InitAssign ==
    /\ NoSession
    /\ \E location \in BandLocations, table \in ExpectedPeakTables :
          pure = [op |-> "input", location |-> Value(location, inv_cm, None),
                  table |-> table, out |-> ""]

\* utils._auto_assign_band(peak_location, expected_peaks)
Assign ==
    /\ pure.op = "input"
    /\ pure' = [pure EXCEPT !.op = "assigned",
                            !.out = AutoAssignBand(pure.location, pure.table)]
    /\ UNCHANGED session

NextAssign == Assign

SpecAssign == InitAssign /\ [][NextAssign]_vars

----------------------------------------------------------------------------
(* Construction of IRAnalysis objects over one IRDataFiles object.  The    *)
(* constructor takes the data model of the files object itself             *)
(* (self._datamodel = measurement_files._datamodel), so the analysis       *)
(* objects of an earlier construction are still in experiment.analysis     *)
(* when the next one runs, and _prepare_analysis_data loops over all of    *)
(* them.  add_to_analysis is given the Dataset of the measurement; whether *)
(* the Analysis keeps that very object or a copy is decided by the         *)
(* data-model base class, which is not part of the sources: pure.aliased   *)
(* covers both.  pure.steps holds, per analysis object, the preparation    *)
(* steps its working spectrum has undergone, in order.                     *)

MaxConstructions == 3

\* the regions of interest passed to the constructor: the default and one
\* that contains the whole wavenumber grid
Regions == {region_of_interest, <<1600, 1300>>}

InitConstruct ==
    \E mode \in DetectionModes, ys \in SampleIntensities, aliased \in BOOLEAN :
        /\ detection = mode
        /\ measurements = LoadedMeasurements(ys[1], ys[2])
        /\ background_df = DefineBackground(LoadedMeasurements(ys[1], ys[2]))
        /\ analysis = <<>>
        /\ expected_peaks = <<>>
        /\ fit_models_attr = FALSE
        /\ last = [op |-> "none", spectrum_no |-> None, args |-> <<>>]
        /\ err = "none"
        /\ computed = <<>>
        /\ y0 = <<>>
        /\ note = {}
        /\ calls = 0
        /\ pure = [op |-> "files", aliased |-> aliased, constructions |-> 0,
                   steps |-> <<>>]

\* the analysis objects that share the working spectrum of object k
Sharing(as, k, aliased) ==
    IF aliased
    THEN {j \in 1..Len(as) : as[j].sample_reference = as[k].sample_reference}
    ELSE {k}

\* _add_analysis_objects on a data model that holds the objects of existing:
\* a new object's corrected_data is the measurement's Dataset, which an
\* earlier object of the same sample works on when the Dataset is shared
AddToExisting(ms, existing, steps, aliased) ==
    LET all == AddAnalysisObjects(ms, existing)
        earlier(k) == {j \in 1..Len(existing) :
                          aliased /\ existing[j].sample_reference = all[k].sample_reference}
    IN  [as |-> [k \in 1..Len(all) |->
                    IF k > Len(existing) /\ earlier(k) # {}
                    THEN [all[k] EXCEPT !.x = existing[SetMin(earlier(k))].x,
                                        !.y = existing[SetMin(earlier(k))].y]
                    ELSE all[k]],
         steps |-> [k \in 1..Len(all) |->
                    IF k <= Len(existing) THEN steps[k]
                    ELSE IF earlier(k) # {} THEN steps[SetMin(earlier(k))]
                    ELSE <<>>]]

\* the working spectrum and the steps of object k are those of unit, for
\* every object that shares the spectrum
Share(s, k, unit, done, aliased) ==
    [as |-> [j \in 1..Len(s.as) |->
                IF j \in Sharing(s.as, k, aliased)
                THEN [s.as[j] EXCEPT !.x = unit.x, !.y = unit.y]
                ELSE s.as[j]],
     steps |-> [j \in 1..Len(s.as) |->
                IF j \in Sharing(s.as, k, aliased)
                THEN s.steps[k] \o done
                ELSE s.steps[j]],
     err |-> s.err]

\* _prepare_analysis_data from object k on: the loop stops at the first
\* exception.  The subtraction of arrays of different lengths raises
\* ValueError (no array here has length 1, which numpy would broadcast).
RECURSIVE PrepareFrom(_, _, _, _, _, _)
PrepareFrom(s, k, bg_intensity, region, mode, aliased) ==
    IF k > Len(s.as) THEN s
    ELSE IF Len(s.as[k].y) # Len(bg_intensity)
    THEN [s EXCEPT !.err = "ValueError"]
    ELSE LET subtracted == SubtractBackground(s.as[k], bg_intensity)
             truncated  == TruncateData(subtracted, region)
         IN  IF ConvertOutcome(truncated, mode) # "none"
             THEN [Share(s, k, truncated, <<"subtract", "truncate">>, aliased)
                      EXCEPT !.err = ConvertOutcome(truncated, mode)]
             ELSE PrepareFrom(
                     Share(s, k, ConvertTransmittanceToIntensity(truncated, mode),
                           <<"subtract", "truncate", "convert">>, aliased),
                     k + 1, bg_intensity, region, mode, aliased)

\* IRAnalysis(files, region_of_interest=region)
Construct ==
    /\ pure.op \in {"files", "constructed", "failed"}
    /\ pure.constructions < MaxConstructions
    /\ \E region \in Regions :
       \E added \in {AddToExisting(measurements, analysis, pure.steps, pure.aliased)} :
       \E r \in {PrepareFrom([as |-> added.as, steps |-> added.steps, err |-> "none"],
                             1, background_df, region, detection, pure.aliased)} :
          /\ analysis' = r.as
          /\ err' = r.err
          /\ expected_peaks' = IF r.err = "none" THEN default_expected_peaks
                               ELSE expected_peaks
          /\ pure' = [pure EXCEPT !.op = IF r.err = "none" THEN "constructed"
                                         ELSE "failed",
                                  !.constructions = @ + 1,
                                  !.steps = r.steps]
    /\ UNCHANGED <<detection, measurements, background_df, fit_models_attr,
                   last, computed, y0, note, calls>>

NextConstruct == Construct

SpecConstruct == InitConstruct /\ [][NextConstruct]_vars

----------------------------------------------------------------------------
(* Baseline correction after IRAnalysis(files, region_of_interest=region): *)
(* the region is the analyst's, and a region that contains no wavenumber   *)
(* of the grid leaves every analysis object with empty corrected data.     *)
(* In transmittance mode such a construction raises ValueError (np.max of  *)
(* an empty array) and there is no object to call.                         *)

empty_region == <<1300, 1200>>

InitRegion ==
    \E mode \in DetectionModes :
    \E ys \in SampleIntensities :
    \E region \in Regions \cup {empty_region} :
        LET ms == LoadedMeasurements(ys[1], ys[2])
            bg == DefineBackground(ms)
            truncated == [k \in 1..2 |->
                            TruncateData(SubtractBackground(
                                AddAnalysisObjects(ms, <<>>)[k], bg), region)]
            as == PrepareAnalysisData(AddAnalysisObjects(ms, <<>>), bg, region, mode)
        IN  /\ \A k \in 1..2 : ConvertOutcome(truncated[k], mode) = "none"
            /\ detection = mode
            /\ measurements = ms
            /\ background_df = bg
            /\ analysis = as
            /\ expected_peaks = default_expected_peaks
            /\ fit_models_attr = FALSE
            /\ last = [op |-> "__init__", spectrum_no |-> None, args |-> <<>>]
            /\ err = "none"
            /\ computed = <<>>
            /\ y0 = [k \in 1..Len(as) |-> as[k].y]
            /\ note = {}
            /\ calls = 0
            /\ pure = [op |-> "none"]

NextRegion == BaselineCorrection

SpecRegion == InitRegion /\ [][NextRegion]_vars

----------------------------------------------------------------------------
(* The session after IRAnalysis(files) and a set_expected_peaks call that  *)
(* supplied a table with a bare-number extinction coefficient.             *)

InitSupplied ==
    \E mode \in DetectionModes :
    \E ys \in SampleIntensities :
        LET ms == LoadedMeasurements(ys[1], ys[2])
            bg == DefineBackground(ms)
            as == PrepareAnalysisData(AddAnalysisObjects(ms, <<>>), bg,
                                      region_of_interest, mode)
        IN  /\ detection = mode
            /\ measurements = ms
            /\ background_df = bg
            /\ analysis = as
            /\ expected_peaks = bare_expected_peaks
            /\ fit_models_attr = FALSE
            /\ last = [op |-> "set_expected_peaks", spectrum_no |-> None,
                       args |-> <<>>]
            /\ err = "none"
            /\ computed = <<>>
            /\ y0 = [k \in 1..Len(as) |-> as[k].y]
            /\ note = {"table_supplied"}
            /\ calls = 0
            /\ pure = [op |-> "none"]

SpecSupplied == InitSupplied /\ [][Next]_vars

----------------------------------------------------------------------------
(* modules/ir_file_handler.py: set_background and _define_background,      *)
(* followed by IRAnalysis(files).  A measurement is named by its id here.  *)

MaxBackgroundCalls == 2

\* the measurements after _initialize_datamodel: no measurement_type yet
InitializedMeasurements(y1, y2) ==
    << Measurement("m0", "unset", BackgroundIntensity, NoValue, NoValue),
       Measurement("m1", "unset", y1, NoValue, NoValue),
       Measurement("m2", "unset", y2, NoValue, NoValue) >>

InitBackground ==
    \E mode \in DetectionModes, ys \in SampleIntensities :
        /\ detection = mode
        /\ measurements = InitializedMeasurements(ys[1], ys[2])
        /\ background_df = <<>>
        /\ analysis = <<>>
        /\ expected_peaks = <<>>
        /\ fit_models_attr = FALSE
        /\ last = [op |-> "none", spectrum_no |-> None, args |-> <<>>]
        /\ err = "none"
        /\ computed = <<>>
        /\ y0 = <<>>
        /\ note = {}
        /\ calls = 0
        /\ pure = [op |-> "loaded", background_calls |-> 0]

\* set_background(background_spectra): the loop marks every measurement and
\* calls _define_background for each one that is named, so the dataframe is
\* that of the last named measurement; when none is named it stays
set_background(background_spectra) ==
    /\ pure.op \in {"loaded", "background"}
    /\ pure.background_calls < MaxBackgroundCalls
    /\ measurements' =
          [i \in 1..Len(measurements) |->
              [measurements[i] EXCEPT !.measurement_type =
                  IF measurements[i].id \in background_spectra
                  THEN "background" ELSE "sample"]]
    /\ LET named == {i \in 1..Len(measurements) :
                        measurements[i].id \in background_spectra}
       IN  background_df' = IF named = {} THEN background_df
                            ELSE measurements[SetMax(named)].y
    /\ pure' = [pure EXCEPT !.op = "background", !.background_calls = @ + 1]
    /\ UNCHANGED <<detection, analysis, expected_peaks, fit_models_attr, last,
                   err, computed, y0, note, calls>>

SetBackground ==
    \E background_spectra \in SUBSET {"m0", "m1", "m2"} :
        set_background(background_spectra)

\* IRAnalysis(files): _set_background_object returns None when no measurement
\* is a background, and _add_analysis_objects then fails on its id at the
\* first sample
ConstructOverFiles ==
    /\ pure.op = "background"
    /\ LET bgs == {i \in 1..Len(measurements) :
                      measurements[i].measurement_type = "background"}
           samples == {i \in 1..Len(measurements) :
                          measurements[i].measurement_type = "sample"}
       IN  IF bgs = {} /\ samples # {}
           THEN /\ analysis' = analysis
                /\ expected_peaks' = expected_peaks
                /\ err' = "AttributeError"
                /\ pure' = [pure EXCEPT !.op = "failed"]
           ELSE /\ analysis' = PrepareAnalysisData(
                                   AddAnalysisObjects(measurements, <<>>),
                                   background_df, region_of_interest, detection)
                /\ expected_peaks' = default_expected_peaks
                /\ err' = "none"
                /\ pure' = [pure EXCEPT !.op = "constructed"]
    /\ UNCHANGED <<detection, measurements, background_df, fit_models_attr, last,
                   computed, y0, note, calls>>

NextBackground == SetBackground \/ ConstructOverFiles

SpecBackground == InitBackground /\ [][NextBackground]_vars

----------------------------------------------------------------------------
(* Properties                                                              *)

\* the positions of the analysis objects
Units == 1..Len(analysis)

\* C1: in every state, for every analysis unit that has a stored baseline,
\* the baseline is as long as the corrected y and corrected y + baseline is,
\* point by point, the y the unit had before its first baseline correction;
\* a unit without a baseline still has that y.
C1_BaselineSumInvariant ==
    \A k \in Units :
        IF analysis[k].has_baseline
        THEN /\ Len(analysis[k].baseline) = Len(analysis[k].y)
             /\ Len(analysis[k].y) = Len(y0[k])
             /\ \A i \in 1..Len(analysis[k].y) :
                   analysis[k].y[i] + analysis[k].baseline[i] = y0[k][i]
        ELSE analysis[k].y = y0[k]

\* a baseline correction that follows an earlier call has left a unit with a
\* baseline that is not zero everywhere and a corrected y that differs from
\* the y before correction
C1_Witness ==
    /\ last.op = "baseline_correction"
    /\ calls >= 2
    /\ \E k \in Units :
          /\ analysis[k].has_baseline
          /\ \E i \in 1..Len(analysis[k].baseline) : analysis[k].baseline[i] # 0
          /\ analysis[k].y # y0[k]

\* C2: a baseline_correction call that directly follows a baseline_correction
\* call with the same threshold and half_window leaves the corrected y and the
\* baseline of every unit that both calls corrected as the first call left them.
C2_RepeatedCorrectionIsIdempotent ==
    [][ ( /\ last.op = "baseline_correction"
          /\ last'.op = "baseline_correction"
          /\ calls' = calls + 1
          /\ last'.args = last.args )
        => \A k \in BaselineSelection(last.spectrum_no)
                       \cap BaselineSelection(last'.spectrum_no) :
              /\ analysis'[k].y = analysis[k].y
              /\ analysis'[k].baseline = analysis[k].baseline ]_vars

\* the second of two successive corrections with the same parameters has run
\* on a unit whose baseline is not zero everywhere
C2_Witness ==
    /\ last.op = "baseline_correction"
    /\ "repeated" \in note
    /\ \E k \in BaselineSelection(last.spectrum_no) :
          \E i \in 1..Len(analysis[k].baseline) : analysis[k].baseline[i] # 0

----------------------------------------------------------------------------
\* the analysis objects a call with this spectrum_no works on (find_bands,
\* fit_bands: "not isinstance(spectrum_no, int)" selects all of them)
Selected(spectrum_no) ==
    IF IsNone(spectrum_no) THEN Units ELSE {spectrum_no[1] + 1}

\* the step is a call of the operation op
IsCall(op) == last'.op = op /\ calls' = calls + 1

\* the detected properties of a band equal those of the row of the detection
SameDetection(band, row, table) ==
    LET d == DetectedBand(row, table, NoFit)
    IN  /\ band.assignment = d.assignment
        /\ band.location = d.location
        /\ band.start = d.start
        /\ band.end = d.end

\* C3: a find_bands call with an integer spectrum_no on a unit that holds at
\* least as many bands as are detected leaves the number of bands unchanged
\* and puts, for every detection position k, the detected band at position k.
C3_IndexedDetectionReplacesEveryBand ==
    [][ ( IsCall("find_bands") /\ ~IsNone(last'.spectrum_no) )
        => LET u == last'.spectrum_no[1] + 1
               rows == Detect(analysis[u], last'.args[1], last'.args[2])
           IN  Len(analysis[u].bands) >= Len(rows)
               => /\ Len(analysis'[u].bands) = Len(analysis[u].bands)
                  /\ \A k \in 1..Len(rows) :
                        SameDetection(analysis'[u].bands[k], rows[k], expected_peaks)
      ]_vars

\* C4: a find_bands call without an integer spectrum_no keeps the bands of
\* every unit and appends, in detection order, one band per detected peak;
\* when every call since construction was such a call with the same
\* arguments, each unit holds calls times the number of detected bands.
C4_DetectionAppendsToEveryUnit ==
    [][ ( IsCall("find_bands") /\ IsNone(last'.spectrum_no) )
        => \A k \in Units :
              LET rows == Detect(analysis[k], last'.args[1], last'.args[2])
                  n == Len(analysis[k].bands)
              IN  /\ Len(analysis'[k].bands) = n + Len(rows)
                  /\ SubSeq(analysis'[k].bands, 1, n) = analysis[k].bands
                  /\ \A j \in 1..Len(rows) :
                        SameDetection(analysis'[k].bands[n + j], rows[j], expected_peaks)
                  /\ "only_find_bands" \in note'
                     => Len(analysis'[k].bands) = calls' * Len(rows)
      ]_vars

\* find_bands() has run twice on unchanged spectra and a unit with detected
\* peaks holds every detected band twice, in detection order
C4_Witness ==
    /\ last.op = "find_bands"
    /\ IsNone(last.spectrum_no)
    /\ "only_find_bands" \in note
    /\ calls = 2
    /\ \E k \in Units :
          LET rows == Detect(analysis[k], last.args[1], last.args[2])
          IN  /\ Len(rows) >= 2
              /\ Len(analysis[k].bands) = 2 * Len(rows)
              /\ \A j \in 1..Len(rows) :
                    analysis[k].bands[j] = analysis[k].bands[Len(rows) + j]

\* some but not all of fit_models, fit_parameter_bounds, fit_parameter_guesses
PartialOverride(args) ==
    (args[1] \/ args[2] \/ args[3]) /\ ~(args[1] /\ args[2] /\ args[3])

\* C5: a fit_bands call with some but not all of the three fit arguments, on
\* selected units that hold a band, raises ValueError and changes no band.
C5_PartialOverrideIsValueError ==
    [][ ( /\ IsCall("fit_bands")
          /\ PartialOverride(last'.args)
          /\ \E k \in Selected(last'.spectrum_no) : Len(analysis[k].bands) > 0 )
        => /\ err' = "ValueError"
           /\ analysis' = analysis
      ]_vars

\* the area of the fit equals its first parameter in value, unit and error
AreaIsFirstParameter(fit) ==
    /\ fit.kind = "Fit"
    /\ fit.area.kind = "Value"
    /\ Len(fit.parameters) >= 1
    /\ fit.area.value = fit.parameters[1].value
    /\ fit.area.unit = fit.parameters[1].unit
    /\ fit.area.error = fit.parameters[1].error

\* C6: after a fit_bands call that takes the default Gauss-Lorentz branch,
\* every fit the call has attached (every band of the selected units when the
\* call returns without error, and every band whose fit it changed) has an
\* area equal to the first entry of its parameter list in value, unit, error.
C6_DefaultFitAreaIsFirstParameter ==
    [][ ( IsCall("fit_bands")
          /\ FitBranch(last'.args[1], last'.args[2], last'.args[3]) = "default" )
        => \A k \in Selected(last'.spectrum_no) :
           \A b \in 1..Len(analysis'[k].bands) :
              ( err' = "none" \/ analysis'[k].bands[b].fit # analysis[k].bands[b].fit )
              => AreaIsFirstParameter(analysis'[k].bands[b].fit)
      ]_vars

\* a default Gauss-Lorentz fit has returned without error and a band of the
\* selected units carries its four parameters, the first one being the area
C6_Witness ==
    /\ last.op = "fit_bands"
    /\ FitBranch(last.args[1], last.args[2], last.args[3]) = "default"
    /\ err = "none"
    /\ \E k \in Selected(last.spectrum_no) :
       \E b \in 1..Len(analysis[k].bands) :
          /\ Len(analysis[k].bands[b].fit.parameters) = 4
          /\ analysis[k].bands[b].fit.area = analysis[k].bands[b].fit.parameters[1]
          /\ analysis[k].bands[b].fit.area # analysis[k].bands[b].fit.parameters[2]

\* C7: when the last call was a fit_bands call that returned without error,
\* every band of every selected unit carries a Fit with an area, and that Fit
\* is the one this call computed for the band, whatever fit it had before.
C7_EveryBandFittedAndOverwritten ==
    ( last.op = "fit_bands" /\ err = "none" )
    => \A k \in Selected(last.spectrum_no) :
       \A b \in 1..Len(analysis[k].bands) :
          /\ analysis[k].bands[b].fit.kind = "Fit"
          /\ analysis[k].bands[b].fit.area.kind = "Value"
          /\ analysis[k].bands[b].fit =
                NewFit(analysis[k].bands[b],
                       FitBranch(last.args[1], last.args[2], last.args[3]),
                       "Gauss-Lorentz")

\* a fit_bands call has returned without error after replacing a different
\* fit that an earlier call had attached to a band
C7_Witness ==
    /\ last.op = "fit_bands"
    /\ err = "none"
    /\ "overwrote" \in note
    /\ \E k \in Selected(last.spectrum_no) : Len(analysis[k].bands) > 0

\* the band carries a complete fit: an area with an error
HasFittedArea(band) ==
    /\ band.fit.kind = "Fit"
    /\ band.fit.area.kind = "Value"
    /\ ~IsNone(band.fit.area.error)

\* C8: a quantify call on units whose bands all carry a fitted area appends
\* to every unit exactly one Result per band, in band order and named after
\* the band's species, and keeps the Results the unit already had.
C8_QuantifyAppendsOneResultPerBand ==
    [][ ( /\ IsCall("quantify")
          /\ \A k \in Units : \A b \in 1..Len(analysis[k].bands) :
                HasFittedArea(analysis[k].bands[b]) )
        => \A k \in Units :
              LET n == Len(analysis[k].measurement_results)
              IN  /\ Len(analysis'[k].measurement_results) = n + Len(analysis[k].bands)
                  /\ SubSeq(analysis'[k].measurement_results, 1, n)
                        = analysis[k].measurement_results
                  /\ \A b \in 1..Len(analysis[k].bands) :
                        analysis'[k].measurement_results[n + b].name
                           = QuantifyAssignment(analysis[k].bands[b], expected_peaks)
      ]_vars

\* an operand in SI base units: the number n/d times ten to the power e
SI(n, d, unit) == [n |-> n, d |-> d, e |-> UnitInfo(unit).e]

\* value (a fraction in micromol per gram, 1e-3 mol/kg) equals
\* (sample_area * peak_area) / (sample_mass * extinction_coefficient)
\* computed from the operands in SI base units
IsQuantityOf(value, sample_area, peak_area, sample_mass, extinction_coefficient) ==
    LET num == sample_area.n * peak_area.n * sample_mass.d * extinction_coefficient.d
        den == sample_area.d * peak_area.d * sample_mass.n * extinction_coefficient.n
        e   == sample_area.e + peak_area.e - sample_mass.e - extinction_coefficient.e + 3
        q   == IF e >= 0 THEN Reduced(num * Pow10(e), den)
               ELSE Reduced(num, den * Pow10(-e))
    IN  value.n = q.n /\ value.d = q.d

\* C9: every quantity the last call, quantify, computed for a band equals
\* (sample_area * peak_area) / (sample_mass * extinction_coefficient) with the
\* operands in SI base units, reported in micromol per gram, mass and area
\* being those of the measurement the unit's sample_reference names; for
\* 2e-4 m^2, 5e2 1/m, 1e-5 kg and 2.22e4 m/mol it is 50000/111 micromol/g.
C9_QuantityFormula ==
    last.op = "quantify" =>
    \A j \in 1..Len(computed) :
       LET a    == analysis[computed[j].unit]
           band == a.bands[computed[j].band]
           m    == SampleMeasurement(measurements, a)
           ext  == PeakRow(expected_peaks, computed[j].result.name).extinction_coefficient
           sample_area == SI(m.sample_area.value, 1, m.sample_area.unit)
           sample_mass == SI(m.mass.value, 1, m.mass.unit)
           peak_area   == SI(band.fit.area.value, 1, band.fit.area.unit)
           coefficient == [n |-> ext.n, d |-> ext.d, e |-> ext.u.e]
       IN  /\ m.id = a.sample_reference
           /\ computed[j].result.unit = reporting_unit
           /\ IsQuantityOf(computed[j].result.value, sample_area, peak_area,
                           sample_mass, coefficient)
           /\ ( /\ sample_area = [n |-> 2, d |-> 1, e |-> -4]
                /\ peak_area = [n |-> 5, d |-> 1, e |-> 2]
                /\ sample_mass = [n |-> 10, d |-> 1, e |-> -6]
                /\ coefficient.n * 100 = 222 * coefficient.d
                /\ coefficient.e = 4 )
              => computed[j].result.value = [n |-> 50000, d |-> 111]

\* quantify has computed 50000/111 micromol/g for a band with area 5 1/cm on
\* the sample of 2 cm^2 and 10 mg with the coefficient 2.22 cm/umol
C9_Witness ==
    /\ last.op = "quantify"
    /\ \E j \in 1..Len(computed) :
          LET a    == analysis[computed[j].unit]
              band == a.bands[computed[j].band]
              m    == SampleMeasurement(measurements, a)
          IN  /\ m.sample_area.value = 2 /\ m.sample_area.unit = "cm2"
              /\ m.mass.value = 10 /\ m.mass.unit = "mg"
              /\ band.fit.area.value = 5
              /\ computed[j].result.value = [n |-> 50000, d |-> 111]

\* C10: when the last call was quantify and a quantity it computed came from
\* a division by a zero mass or a zero coefficient (its value or its error is
\* infinite or NaN), the call raised QuantificationError; and no stored
\* Result holds an infinite or NaN value or error.
C10_ZeroDivisionIsQuantificationError ==
    /\ ( last.op = "quantify"
         /\ \E j \in 1..Len(computed) :
               \/ IsInf(computed[j].result.value) \/ IsNaN(computed[j].result.value)
               \/ IsInf(computed[j].result.error) \/ IsNaN(computed[j].result.error) )
       => err = "QuantificationError"
    /\ \A k \in Units : \A r \in 1..Len(analysis[k].measurement_results) :
          LET v == analysis[k].measurement_results[r].value
          IN  ~( IsInf(v.value) \/ IsNaN(v.value) \/ IsInf(v.error) \/ IsNaN(v.error) )

\* C11: the error of every quantity the last call, quantify, computed for a
\* band equals (sample_area * area_error) / (sample_mass * coefficient), the
\* formula of the value with the error of the fitted area in the place of the
\* area and the other operands unchanged, in the reporting unit of the value.
C11_QuantityErrorFormula ==
    last.op = "quantify" =>
    \A j \in 1..Len(computed) :
       LET a    == analysis[computed[j].unit]
           band == a.bands[computed[j].band]
           m    == SampleMeasurement(measurements, a)
           ext  == PeakRow(expected_peaks, computed[j].result.name).extinction_coefficient
           sample_area == SI(m.sample_area.value, 1, m.sample_area.unit)
           sample_mass == SI(m.mass.value, 1, m.mass.unit)
           area_error  == SI(band.fit.area.error[1], 1, band.fit.area.unit)
           coefficient == [n |-> ext.n, d |-> ext.d, e |-> ext.u.e]
       IN  /\ computed[j].result.unit = reporting_unit
           /\ IsQuantityOf(computed[j].result.error, sample_area, area_error,
                           sample_mass, coefficient)

\* quantify has computed, for a band whose fitted area 5 has the error 1 on
\* the sample of 2 cm^2 and 10 mg, a finite error that differs from the value
C11_Witness ==
    /\ last.op = "quantify"
    /\ \E j \in 1..Len(computed) :
          LET a    == analysis[computed[j].unit]
              band == a.bands[computed[j].band]
              m    == SampleMeasurement(measurements, a)
          IN  /\ m.mass.value = 10
              /\ band.fit.area.value = 5
              /\ band.fit.area.error = Some(1)
              /\ computed[j].result.error = [n |-> 10000, d |-> 111]
              /\ computed[j].result.error # computed[j].result.value

----------------------------------------------------------------------------
\* the positions of the dataframe whose x lies strictly inside the region
StrictlyInside(df, low, high) ==
    {i \in 1..Len(df.wavenumber) :
        /\ df.wavenumber[i] > (IF low <= high THEN low ELSE high)
        /\ df.wavenumber[i] < (IF low <= high THEN high ELSE low)}

\* out holds exactly the rows of df at the positions of keep, in their order
IsRestriction(out, df, keep) ==
    /\ Len(out.wavenumber) = Cardinality(keep)
    /\ Len(out.intensity) = Cardinality(keep)
    /\ \E f \in [1..Cardinality(keep) -> keep] :
          /\ \A a \in 1..Cardinality(keep), b \in 1..Cardinality(keep) :
                a < b => f[a] < f[b]
          /\ \A a \in 1..Cardinality(keep) :
                /\ out.wavenumber[a] = df.wavenumber[f[a]]
                /\ out.intensity[a] = df.intensity[f[a]]

\* C12: every truncation returns exactly the (x, y) rows of the dataframe
\* whose x lies strictly between min(low, high) and max(low, high), in their
\* original order and with x and y still paired; when no row lies strictly
\* inside (low = high included) the result has length 0.
C12_TruncationKeepsStrictInterior ==
    \A r \in {pure.as_given, pure.swapped} :
       ~IsNone(r) =>
          /\ IsRestriction(r[1], pure.dataframe,
                           StrictlyInside(pure.dataframe, pure.low, pure.high))
          /\ StrictlyInside(pure.dataframe, pure.low, pure.high) = {}
             => r[1] = [wavenumber |-> <<>>, intensity |-> <<>>]

\* a truncation with high < low has kept some rows in the middle of a
\* dataframe and dropped rows at both ends, one of them on a bound
C12_Witness ==
    /\ pure.op = "truncated"
    /\ ~IsNone(pure.as_given)
    /\ pure.high < pure.low
    /\ Len(pure.dataframe.wavenumber) = 3
    /\ Len(pure.as_given[1].wavenumber) = 1
    /\ pure.as_given[1].wavenumber[1] = pure.dataframe.wavenumber[2]
    /\ pure.as_given[1].intensity[1] = pure.dataframe.intensity[2]
    /\ pure.dataframe.intensity[2] # pure.dataframe.intensity[1]
    /\ pure.dataframe.wavenumber[1] = pure.low

\* C13: the truncation of a dataframe to (low, high) equals its truncation to
\* (high, low).
C13_TruncationIgnoresBoundOrder ==
    ( ~IsNone(pure.as_given) /\ ~IsNone(pure.swapped) )
    => pure.as_given = pure.swapped

\* both truncations have run with low # high and kept at least one row
C13_Witness ==
    /\ ~IsNone(pure.as_given)
    /\ ~IsNone(pure.swapped)
    /\ pure.low # pure.high
    /\ Len(pure.as_given[1].wavenumber) >= 1

\* C14: after the conversion step, in mode "transmittance" every y[i] of the
\* working spectrum is max(y) - y[i] with the maximum taken over the spectrum
\* before the step; in modes "absorbance" and "intensity" the spectrum is as
\* it was before the step.
C14_ConversionIsGatedByMode ==
    pure.op = "converted" =>
       IF pure.mode = "transmittance"
       THEN /\ Len(pure.out) = Len(pure.y)
            /\ \A i \in 1..Len(pure.y) :
                  /\ \E j \in 1..Len(pure.y) :
                        pure.out[i] = pure.y[j] - pure.y[i]
                  /\ \A j \in 1..Len(pure.y) :
                        pure.out[i] >= pure.y[j] - pure.y[i]
       ELSE pure.out = pure.y /\ pure.err = "none"

\* a transmittance spectrum of three samples that are not all equal has been
\* inverted, and its largest sample has become 0
C14_Witness ==
    /\ pure.op = "converted"
    /\ pure.mode = "transmittance"
    /\ Len(pure.y) = 3
    /\ pure.y[1] < pure.y[2]
    /\ pure.y[3] < pure.y[2]
    /\ pure.out[2] = 0
    /\ pure.out # pure.y

\* s is an initial part of t
IsPrefix(s, t) == Len(s) <= Len(t) /\ \A i \in 1..Len(s) : s[i] = t[i]

\* C15: in every state the working spectrum of every analysis object has
\* undergone no preparation step twice and none out of order (its steps are
\* an initial part of subtract, truncate, convert), and after a construction
\* that returned it has undergone exactly these three, once each.
C15_PreparedExactlyOnce ==
    pure.op \in {"constructed", "failed"} =>
       \A k \in 1..Len(analysis) :
          /\ IsPrefix(pure.steps[k], <<"subtract", "truncate", "convert">>)
          /\ pure.op = "constructed"
             => pure.steps[k] = <<"subtract", "truncate", "convert">>

\* the absolute difference, in 1 / m, between the expected location of row k
\* of the table and the band location, as a fraction with denominator
\* table[k].location.d
DistanceInSI(location, table, k) ==
    Abs(table[k].location.n * Pow10(table[k].location.u.e)
        - location.value * Pow10(UnitInfo(location.unit).e) * table[k].location.d)

\* row a of the table is at most as far from the band location as row b
NotFarther(location, table, a, b) ==
    DistanceInSI(location, table, a) * table[b].location.d
       <= DistanceInSI(location, table, b) * table[a].location.d

\* name is the name of the first row of the table that no row is nearer to
\* the band location than, distances taken after conversion to one unit
IsFirstNearest(name, location, table) ==
    \E a \in 1..Len(table) :
       /\ table[a].name = name
       /\ \A b \in 1..Len(table) : NotFarther(location, table, a, b)
       /\ \A b \in 1..(a - 1) : ~NotFarther(location, table, b, a)

\* C16: the assignment returned by the classifier is the expected peak
\* nearest to the band location after both are brought to one unit, whatever
\* units the expected locations are given in.
C16_ClassifierComparesInOneUnit ==
    pure.op = "assigned" => IsFirstNearest(pure.out, pure.location, pure.table)

\* every expected location of the table is given in the unit of the band
SameUnits(location, table) ==
    \A k \in 1..Len(table) : table[k].location.u = UnitInfo(location.unit)

\* C17: for a table whose locations are in the unit of the band location, the
\* classifier returns the name of the expected peak with the smallest
\* absolute difference to the band location, on a tie the one that comes
\* first in the table; with A:1455, B:1491, C:1545 a band at 1500 gets "B".
C17_ClassifierPicksFirstNearest ==
    ( pure.op = "assigned" /\ SameUnits(pure.location, pure.table) )
    => /\ IsFirstNearest(pure.out, pure.location, pure.table)
       /\ ( pure.table = other_expected_peaks /\ pure.location.value = 1500 )
          => pure.out = "B"

\* a band at 1473, as far from 1455 as from 1491, has been assigned with the
\* table in the order C, B, A and got "B", the first of the two in that table
C17_Witness ==
    /\ pure.op = "assigned"
    /\ pure.table = reversed_expected_peaks
    /\ pure.location.value = 1473
    /\ pure.out = "B"

\* the assignments of the bands of unit k that existed before the step are
\* what they were
AssignmentsKept(k) ==
    /\ Len(analysis'[k].bands) >= Len(analysis[k].bands)
    /\ \A b \in 1..Len(analysis[k].bands) :
          analysis'[k].bands[b].assignment = analysis[k].bands[b].assignment

\* C18 as stated: while no call of set_expected_peaks has been made, a
\* find_bands or quantify call keeps the assignment of every band that
\* existed before and gives every band it adds the empty assignment.
C18_NoTableSkipsClassification ==
    [][ ( "table_supplied" \notin note
          /\ (IsCall("find_bands") \/ IsCall("quantify")) )
        => \A k \in Units :
              /\ AssignmentsKept(k)
              /\ \A b \in (Len(analysis[k].bands) + 1)..Len(analysis'[k].bands) :
                    analysis'[k].bands[b].assignment = ""
      ]_vars

\* C18 amended: while no call of set_expected_peaks has been made, the table
\* is the default one of __init__ (Lewis 1455, Mixed 1491, Bronsted 1545
\* 1 / cm); every band a find_bands call adds or replaces is assigned the
\* name of the default peak nearest to its location, every other band keeps
\* its assignment, and a quantify call changes no assignment.
C18_NoTableClassifiesWithDefaults ==
    [][ "table_supplied" \notin note
        => /\ expected_peaks = default_expected_peaks
           /\ IsCall("find_bands")
              => \A k \in Units : \A b \in 1..Len(analysis'[k].bands) :
                    \/ /\ b <= Len(analysis[k].bands)
                       /\ analysis'[k].bands[b] = analysis[k].bands[b]
                    \/ IsFirstNearest(analysis'[k].bands[b].assignment,
                                      analysis'[k].bands[b].location,
                                      default_expected_peaks)
           /\ IsCall("quantify")
              => \A k \in Units :
                    /\ Len(analysis'[k].bands) = Len(analysis[k].bands)
                    /\ AssignmentsKept(k)
      ]_vars

\* find_bands has run on an object whose table was never set by a call, and
\* a unit holds a band assigned "Lewis" and a band assigned "Mixed"
C18_Witness ==
    /\ last.op = "find_bands"
    /\ "table_supplied" \notin note
    /\ \E k \in Units :
       \E b \in 1..Len(analysis[k].bands), c \in 1..Len(analysis[k].bands) :
          /\ analysis[k].bands[b].assignment = "Lewis"
          /\ analysis[k].bands[c].assignment = "Mixed"

\* the analysis objects a fit_bands call with spectrum_no visits, in order
VisitedUnits(spectrum_no) ==
    IF IsNone(spectrum_no) THEN [k \in 1..Len(analysis) |-> k]
    ELSE <<spectrum_no[1] + 1>>

\* the solver is reached for the band at position f of pos and fails there:
\* every earlier band was fitted and the band at f passes the steps before
\* the solver
SolverFailsAt(pos, f, branch) ==
    /\ f \in 1..Len(pos)
    /\ \A j \in 1..f :
          FitOutcome(analysis[pos[j][1]], analysis[pos[j][1]].bands[pos[j][2]],
                     branch, TRUE) = "none"

\* C19: when the solver fails for a band during a fit_bands call, the call
\* ends with the solver's error (one attempt, no other outcome), the bands
\* visited before the failing one carry their new fits, and the failing band,
\* the bands after it and everything else in the analysis objects are what
\* they were before the call.
C19_SolverFailurePropagates ==
    [][ IsCall("fit_bands")
        => LET pos    == BandPositions(VisitedUnits(last'.spectrum_no), analysis)
               branch == FitBranch(last'.args[1], last'.args[2], last'.args[3])
               f      == last'.fail_at
           IN  /\ SolverFailsAt(pos, f, branch) <=> err' = "RuntimeError"
               /\ err' = "RuntimeError"
                  => /\ Len(analysis') = Len(analysis)
                     /\ \A k \in Units :
                           /\ analysis'[k] =
                                 [analysis[k] EXCEPT !.bands = analysis'[k].bands]
                           /\ Len(analysis'[k].bands) = Len(analysis[k].bands)
                           /\ \A b \in 1..Len(analysis[k].bands) :
                                 analysis'[k].bands[b] =
                                    IF \E j \in 1..(f - 1) : pos[j] = <<k, b>>
                                    THEN [analysis[k].bands[b] EXCEPT !.fit =
                                            NewFit(analysis[k].bands[b], branch,
                                                   "Gauss-Lorentz")]
                                    ELSE analysis[k].bands[b]
      ]_vars

\* the solver has failed at the second band a fit_bands call visited, after
\* the call replaced a different fit of an earlier call on the first band,
\* and the failing band carries the fit of an earlier call
C19_Witness ==
    /\ last.op = "fit_bands"
    /\ err = "RuntimeError"
    /\ last.fail_at = 2
    /\ "overwrote" \in note
    /\ LET pos == BandPositions(VisitedUnits(last.spectrum_no), analysis)
       IN  /\ Len(pos) >= 2
           /\ analysis[pos[2][1]].bands[pos[2][2]].fit.area.kind = "Value"

\* the corrected data of analysis object a cannot be baseline corrected: its
\* arrays are empty or of different lengths
Unshaped(a) == Len(a.y) = 0 \/ Len(a.x) # Len(a.y)

\* C20: a baseline_correction call that selects a unit whose intensity and x
\* arrays are empty or of different lengths ends with ShapeError, and such a
\* unit's corrected data and baseline are what they were before the call.
C20_UnshapedDataIsShapeError ==
    [][ ( /\ IsCall("baseline_correction")
          /\ \E k \in BaselineSelection(last'.spectrum_no) : Unshaped(analysis[k]) )
        => /\ err' = "ShapeError"
           /\ \A k \in BaselineSelection(last'.spectrum_no) :
                 Unshaped(analysis[k]) => analysis'[k] = analysis[k]
      ]_vars

\* C21: a baseline_correction call with an integer spectrum_no = i (0
\* included) gives unit i its recomputed baseline and leaves the corrected
\* data and baseline of every other unit unchanged; a call without
\* spectrum_no corrects every unit.
C21_IndexedBaselineCorrectsOneUnit ==
    [][ ( IsCall("baseline_correction") /\ err' = "none" )
        => \A k \in Units :
              IF IsNone(last'.spectrum_no) \/ k = last'.spectrum_no[1] + 1
              THEN analysis'[k] = BaselineStep(analysis[k], last'.args[1],
                                               last'.args[2])
              ELSE /\ analysis'[k].y = analysis[k].y
                   /\ analysis'[k].baseline = analysis[k].baseline
                   /\ analysis'[k].has_baseline = analysis[k].has_baseline
      ]_vars

InDefaultUnit(table) ==
    [k \in 1..Len(table) |->
        IF table[k].extinction_coefficient.u = UnitInfo("dimensionless")
        THEN [table[k] EXCEPT !.extinction_coefficient.u = UnitInfo("m / mol")]
        ELSE table[k]]

\* the band of unit a is quantified with a coefficient given as a bare number,
\* and its area, the sample's mass and the sample's area are all there
QuantifiedWithBareCoefficient(a, band) ==
    /\ band.location.kind = "Value"
    /\ HasFittedArea(band)
    /\ SampleMeasurement(measurements, a).mass.kind = "Value"
    /\ SampleMeasurement(measurements, a).sample_area.kind = "Value"
    /\ PeakRow(expected_peaks, QuantifyAssignment(band, expected_peaks))
          .extinction_coefficient.u = UnitInfo("dimensionless")

\* C23: when the first band a quantify call visits is quantified with an
\* extinction coefficient that was supplied as a bare number, the call does
\* not fail on the units and computes for the band the quantity that the
\* coefficient read in m / mol gives.
C23_BareCoefficientIsMetrePerMol ==
    ( /\ last.op = "quantify"
      /\ \E k \in Units : Len(analysis[k].bands) > 0 )
    => LET pos  == BandPositions([k \in 1..Len(analysis) |-> k], analysis)
           a    == analysis[pos[1][1]]
           band == a.bands[pos[1][2]]
       IN  QuantifiedWithBareCoefficient(a, band)
           => /\ err # "UnitConversionError"
              /\ Len(computed) >= 1
              /\ computed[1].result =
                    QuantityValue(measurements, a, band, InDefaultUnit(expected_peaks))

\* the positions of the measurements of type "sample", in measurement order
SamplePositions(ms) ==
    SortedSeq({i \in 1..Len(ms) : ms[i].measurement_type = "sample"})

\* C24: once an IRAnalysis has been constructed over the files object, its
\* analysis units are exactly one per measurement of type "sample", in
\* measurement order, each with that sample's id and the background's id,
\* also after further constructions over the same files object.
C24_OneUnitPerSample ==
    ( pure.op \in {"constructed", "failed"} )
    => LET samples == SamplePositions(measurements)
       IN  /\ Len(analysis) = Len(samples)
           /\ \A k \in 1..Len(analysis) :
                 /\ analysis[k].sample_reference = measurements[samples[k]].id
                 /\ analysis[k].background_reference =
                       SetBackgroundObject(measurements).id

\* the rows of df whose x lies in the closed window between low and high
InsideOrOnBounds(df, low, high) ==
    {i \in 1..Len(df.wavenumber) :
        /\ df.wavenumber[i] >= (IF low <= high THEN low ELSE high)
        /\ df.wavenumber[i] <= (IF low <= high THEN high ELSE low)}

C26_IndexedCallsTouchOneUnit ==
    [][ ( /\ \E op \in {"find_bands", "fit_bands", "add_band"} : IsCall(op)
          /\ ~IsNone(last'.spectrum_no) )
        => /\ Len(analysis') = Len(analysis)
           /\ \A k \in Units :
                 k # last'.spectrum_no[1] + 1 => analysis'[k] = analysis[k]
      ]_vars

\* fit_bands with an integer spectrum_no has fitted a band of the selected
\* unit while a band of another unit still has no fitted area
C26_Witness ==
    /\ last.op = "fit_bands"
    /\ ~IsNone(last.spectrum_no)
    /\ err = "none"
    /\ \E b \in 1..Len(analysis[last.spectrum_no[1] + 1].bands) :
          analysis[last.spectrum_no[1] + 1].bands[b].fit.area.kind = "Value"
    /\ \E k \in Units :
          /\ k # last.spectrum_no[1] + 1
          /\ \E b \in 1..Len(analysis[k].bands) :
                analysis[k].bands[b].fit.area.kind # "Value"

\* band new is band old with at most its fit replaced
OnlyFitDiffers(new, old) == new = [old EXCEPT !.fit = new.fit]

\* C27: a fit_bands call changes nothing but the fit of bands of the selected
\* units: every unit keeps its corrected data, baseline, results and the
\* number and order of its bands, every band keeps its assignment, location,
\* start and end, and bands of units that are not selected keep their fit.
C27_FitChangesOnlyFits ==
    [][ IsCall("fit_bands")
        => /\ Len(analysis') = Len(analysis)
           /\ \A k \in Units :
                 /\ analysis'[k] = [analysis[k] EXCEPT !.bands = analysis'[k].bands]
                 /\ Len(analysis'[k].bands) = Len(analysis[k].bands)
                 /\ \A b \in 1..Len(analysis[k].bands) :
                       /\ OnlyFitDiffers(analysis'[k].bands[b], analysis[k].bands[b])
                       /\ k \notin Selected(last'.spectrum_no)
                          => analysis'[k].bands[b] = analysis[k].bands[b]
      ]_vars

\* fit_bands has attached a fit to a detected band that is assigned "Mixed":
\* the band still has its detected location without an error, while the
\* fit's location parameter carries one
C27_Witness ==
    /\ last.op = "fit_bands"
    /\ err = "none"
    /\ \E k \in Selected(last.spectrum_no) :
       \E b \in 1..Len(analysis[k].bands) :
          /\ analysis[k].bands[b].assignment = "Mixed"
          /\ analysis[k].bands[b].fit.area.kind = "Value"
          /\ IsNone(analysis[k].bands[b].location.error)
          /\ ~IsNone(analysis[k].bands[b].fit.parameters[2].error)

\* C28: a baseline_correction call leaves the bands (location, start, end,
\* assignment, fit) and the results of every unit as they were.
C28_BaselineKeepsBandsAndResults ==
    [][ IsCall("baseline_correction")
        => /\ Len(analysis') = Len(analysis)
           /\ \A k \in Units :
                 /\ analysis'[k].bands = analysis[k].bands
                 /\ analysis'[k].measurement_results = analysis[k].measurement_results
      ]_vars

\* baseline_correction has run on a unit that holds a fitted band, and the
\* unit's corrected y is no longer the y the band was detected on
C28_Witness ==
    /\ last.op = "baseline_correction"
    /\ \E k \in BaselineSelection(last.spectrum_no) :
          /\ analysis[k].has_baseline
          /\ analysis[k].y # y0[k]
          /\ \E b \in 1..Len(analysis[k].bands) :
                analysis[k].bands[b].fit.area.kind = "Value"

\* the first position of pos at which the loop body of quantify raises
FirstFailure(pos) ==
    SetMin({j \in 1..Len(pos) :
               QuantifyOutcome(measurements, analysis[pos[j][1]],
                               analysis[pos[j][1]].bands[pos[j][2]],
                               expected_peaks) # "none"} \cup {Len(pos) + 1})

C30_SubtractedBackgroundIsReferenced ==
    ( pure.op = "constructed" )
    => \A k \in 1..Len(analysis) :
          \E i \in 1..Len(measurements), j \in 1..Len(measurements) :
             /\ measurements[i].id = analysis[k].background_reference
             /\ measurements[i].measurement_type = "background"
             /\ background_df = measurements[i].y
             /\ measurements[j].id = analysis[k].sample_reference
             /\ detection # "transmittance"
                => analysis[k].y =
                      TruncateData([x |-> measurements[j].x,
                                    y |-> [n \in 1..Len(measurements[j].y) |->
                                              measurements[j].y[n] - measurements[i].y[n]]],
                                   region_of_interest).y

====
